---------------------------- MODULE Spec2Model ----------------------------
(***************************************************************************)
(* A model of src/src/App.tsx: the React component App of the image        *)
(* editor.  The state is the component's state (image, adjustments,        *)
(* angle, mirror), the canvas behind canvasRef, the FileReader loads and  *)
(* Image loads whose onload callback has not run yet, and the last data    *)
(* URL handed to the download link.                                        *)
(*                                                                         *)
(* Bitmaps are records [width, height, data]; data maps <<x, y>> to a      *)
(* pixel <<r, g, b, a>> of four 8-bit channels.  A position outside the    *)
(* domain of data is transparent black.                                    *)
(*                                                                         *)
(* What the 2D context does with filter/translate/rotate/scale/drawImage   *)
(* is the browser's part of lines 40-53; it is modelled after the canvas   *)
(* and CSS filter definitions: the image is drawn through the current      *)
(* transformation matrix into a layer, the filter list is applied to the   *)
(* layer, and the layer is clipped to the canvas.                          *)
(***************************************************************************)
EXTENDS Integers, Sequences, FiniteSets, TLC

\* ------------------------------------------------------------------ bounds

\* At most MaxPending Image objects wait for their load event at a time.
MaxPending == 2
\* At most MaxEvents user events (slider moves, button clicks) in a behaviour.
MaxEvents == 4

\* ------------------------------------------------------------- arithmetic

Abs(n) == IF n < 0 THEN -n ELSE n

Max2(a, b) == IF a > b THEN a ELSE b

\* n / d to the nearest integer, d > 0.
RoundDiv(n, d) == (2 * n + d) \div (2 * d)

\* A channel value is stored in 8 bits.
Clamp255(n) == IF n < 0 THEN 0 ELSE IF n > 255 THEN 255 ELSE n

\* The function f itself, as the table of its values: each value is then
\* computed once, however often it is read.
Tabulated(f) == f @@ << >>

\* f[1] + ... + f[n].
Sum(f, n) ==
    LET s[i \in 0 .. n] == IF i = 0 THEN 0 ELSE s[i - 1] + f[i]
    IN  s[n]

\* ---------------------------------------------------------------- bitmaps

Transparent == <<0, 0, 0, 0>>

Positions(w, h) == (0 .. w - 1) \X (0 .. h - 1)

\* The colours of the uploaded files' pixels, in row-major order.
Palette ==
    << <<255,   0,   0, 255>>, <<  0, 255,   0, 128>>, <<  0,   0, 255, 255>>,
       <<200, 200, 200, 255>>, << 10, 120, 240, 255>>, <<255, 255,   0, 255>>,
       << 90,  40,  10, 255>>, <<  0,   0,   0, 255>>, <<255, 255, 255, 255>>,
       <<128,  64, 192,  64>> >>

\* The files uploaded, each named by its size <<w, h>>: a square one, one
\* whose sides differ by an odd number and one whose sides differ by an even
\* number.
Files == {<<2, 2>>, <<2, 1>>, <<1, 3>>}

\* new Image(); img.src = image: the decoded bitmap of a file.
Decode(file) ==
    LET w == file[1]
        h == file[2]
    IN  [width  |-> w,
         height |-> h,
         data   |-> [p \in Positions(w, h) |->
                        Palette[((p[1] + w * p[2]) % Len(Palette)) + 1]]]

\* A canvas element with no width and height attributes: 300 x 150,
\* transparent black.
DefaultCanvasWidth == 300

DefaultCanvasHeight == 150

BlankCanvas ==
    [width |-> DefaultCanvasWidth, height |-> DefaultCanvasHeight, data |-> <<>>]

\* ---------------------------------------------------------------- filters

\* brightness(b%): a linear multiplier on each colour channel.
brightness(c, b) == Clamp255(RoundDiv(c * b, 100))

\* contrast(k%): slope k/100 about the middle of the channel range.
contrast(c, k) == Clamp255(RoundDiv(2 * c * k + 255 * (100 - k), 200))

\* saturate(s%): the saturation colour matrix, coefficients in 1/100000.
saturate(px, s) ==
    LET R == px[1]
        G == px[2]
        B == px[3]
        t == 100 - s
    IN  << Clamp255(RoundDiv((21300 + 787 * s) * R + 715 * t * G + 72 * t * B, 100000)),
           Clamp255(RoundDiv(213 * t * R + (71500 + 285 * s) * G + 72 * t * B, 100000)),
           Clamp255(RoundDiv(213 * t * R + 715 * t * G + (7200 + 928 * s) * B, 100000)),
           px[4] >>

\* The three colour functions of the filter list, in the order of the string.
colourFilter(px, adj) ==
    IF px[4] = 0 THEN Transparent
    ELSE saturate(<< contrast(brightness(px[1], adj.brightness), adj.contrast),
                     contrast(brightness(px[2], adj.brightness), adj.contrast),
                     contrast(brightness(px[3], adj.brightness), adj.contrast),
                     px[4] >>,
                  adj.saturation)

\* The template string of lines 43-46 parses as a filter list only when no
\* argument is negative; assigning a string that does not parse leaves
\* ctx.filter at "none", its value after the canvas was resized.
filterParses(adj) ==
    /\ adj.brightness >= 0
    /\ adj.contrast >= 0
    /\ adj.saturation >= 0
    /\ adj.blur >= 0

\* ------------------------------------------------------------ the drawing

\* ctx.rotate(rotation * Math.PI / 180) on a point about the origin: a
\* positive angle turns clockwise on the canvas (y grows downwards).
rotatePoint(p, angle) ==
    CASE angle % 360 = 0   -> p
      [] angle % 360 = 90  -> << -p[2], p[1] >>
      [] angle % 360 = 180 -> << -p[1], -p[2] >>
      [] angle % 360 = 270 -> << p[2], -p[1] >>

\* ctx.scale(flip.horizontal ? -1 : 1, flip.vertical ? -1 : 1) on a point.
scalePoint(p, mirror) ==
    << (IF mirror.horizontal THEN -1 ELSE 1) * p[1],
       (IF mirror.vertical THEN -1 ELSE 1) * p[2] >>

\* The current transformation matrix at drawImage, on a point of the image
\* measured from the image's centre.  Each of translate, rotate and scale
\* multiplies the matrix on the right, so the scale meets the point first
\* and the angle second; the result is measured from the canvas centre.
transformPoint(p, angle, mirror) == rotatePoint(scalePoint(p, mirror), angle)

\* Twice the distance of the centre of pixel column (or row) i from the
\* centre of a bitmap n wide (or high): an integer.
FromCentre(i, n) == 2 * i + 1 - n

\* coverage as it would be were the image drawn with its corner, not its
\* centre, at the origin: drawImage(img, 0, 0).
coverageFromCorner(img, angle, mirror, p, cx, cy) ==
    LET q == transformPoint(<< 2 * p[1] + 1, 2 * p[2] + 1 >>, angle, mirror)
    IN  Max2(0, 2 - Abs(FromCentre(cx, img.width) - q[1]))
          * Max2(0, 2 - Abs(FromCentre(cy, img.height) - q[2]))

\* The part (in quarters) of canvas pixel <<cx, cy>> that source pixel p
\* covers once drawn: drawImage(img, -img.width/2, -img.height/2) through
\* the matrix, on a canvas of the image's width and height (lines 40-41).
coverage(img, angle, mirror, p, cx, cy) ==
    LET q == transformPoint(<< FromCentre(p[1], img.width),
                               FromCentre(p[2], img.height) >>, angle, mirror)
    IN  Max2(0, 2 - Abs(FromCentre(cx, img.width) - q[1]))
          * Max2(0, 2 - Abs(FromCentre(cy, img.height) - q[2]))

\* The i-th position, in row-major order from 1, of a grid w wide whose
\* first column and row are numbered lo.
Nth(i, w, lo) == << lo + ((i - 1) % w), lo + ((i - 1) \div w) >>

\* The drawn image at canvas position c, before the filter: the source
\* pixels that cover it, weighted by area (alpha premultiplied).
layerPixel(img, angle, mirror, c) ==
    LET n == img.width * img.height
        px(i) == img.data[Nth(i, img.width, 0)]
        wa == Tabulated([i \in 1 .. n |->
                  coverage(img, angle, mirror, Nth(i, img.width, 0), c[1], c[2]) * px(i)[4]])
        A == Sum(wa, n)
        ch(k) == RoundDiv(Sum([i \in 1 .. n |-> wa[i] * px(i)[k]], n), A)
    IN  IF RoundDiv(A, 4) = 0 THEN Transparent
        ELSE << ch(1), ch(2), ch(3), RoundDiv(A, 4) >>

\* The canvas positions the drawn image can touch: the canvas and a margin
\* for a rotated image wider than the canvas is high (or the reverse).
LayerBox(img) ==
    LET d == Abs(img.width - img.height)
    IN  (-d .. img.width - 1 + d) \X (-d .. img.height - 1 + d)

\* blur(r px) at canvas position c of a layer: the mean of the layer over
\* the positions within r of c, alpha premultiplied; positions the image
\* does not touch are transparent.  r = 0 samples no neighbour.
blur(img, layer, r, c) ==
    LET d == Abs(img.width - img.height)
        bw == img.width + 2 * d
        m == bw * (img.height + 2 * d)
        at(j) == Nth(j, bw, -d)
        n == (2 * r + 1) * (2 * r + 1)
        a == Tabulated([j \in 1 .. m |->
                 IF Abs(at(j)[1] - c[1]) <= r /\ Abs(at(j)[2] - c[2]) <= r
                 THEN layer[at(j)][4] ELSE 0])
        A == Sum(a, m)
        ch(k) == RoundDiv(Sum([j \in 1 .. m |-> a[j] * layer[at(j)][k]], m), A)
    IN  IF RoundDiv(A, n) = 0 THEN Transparent
        ELSE << ch(1), ch(2), ch(3), RoundDiv(A, n) >>

NoAdjustment == [brightness |-> 100, contrast |-> 100, saturation |-> 100, blur |-> 0]

NoFlip == [horizontal |-> FALSE, vertical |-> FALSE]

\* ctx.filter (lines 43-46) and drawImage through the matrix (lines 49-52)
\* on a canvas of the image's size: what is painted at each canvas position.
paint(file, adj, angle, mirror) ==
    LET img == Decode(file)
        f == IF filterParses(adj) THEN adj ELSE NoAdjustment
        layer == Tabulated([c \in LayerBox(img) |->
                     colourFilter(layerPixel(img, angle, mirror, c), f)])
    IN  Tabulated([c \in Positions(img.width, img.height) |->
                      blur(img, layer, f.blur, c)])

\* The values the range inputs offer (lines 121-128): min 0, max 200 for the
\* three percentages and max 20 for blur.
SliderMax(name) == IF name = "blur" THEN 20 ELSE 200

\* The slider positions tried.
SliderValues(name) ==
    CASE name = "brightness" -> {50, 100}
      [] name = "blur"       -> {0, 1}
      [] OTHER               -> {100}

\* Numbers no slider offers, which handleAdjustment's parameter (value:
\* number, line 71) admits.
OffSlider(name) ==
    CASE name = "brightness" -> {-10, 250}
      [] name = "blur"       -> {25}
      [] OTHER               -> {250}

Names == {"brightness", "contrast", "saturation", "blur"}

Rotations == {0, 90, 180, 270}

Flips == [horizontal : BOOLEAN, vertical : BOOLEAN]

\* The files, adjustment values, rotations and flips for which paint is
\* computed once and kept.
PaintKeys ==
    Files
        \X [brightness : SliderValues("brightness") \cup OffSlider("brightness"),
            contrast   : SliderValues("contrast") \cup OffSlider("contrast"),
            saturation : SliderValues("saturation") \cup OffSlider("saturation"),
            blur       : SliderValues("blur") \cup OffSlider("blur")]
        \X Rotations \X Flips

Painted == Tabulated([k \in PaintKeys |-> paint(k[1], k[2], k[3], k[4])])

painted(file, adj, angle, mirror) ==
    IF << file, adj, angle, mirror >> \in PaintKeys
    THEN Painted[<< file, adj, angle, mirror >>]
    ELSE paint(file, adj, angle, mirror)

\* resize as it would be were the canvas resized only when its size
\* changes: if (canvas.width !== w) canvas.width = w, and so for the height.
resizeKeep(cv, w, h) ==
    IF cv.width = w /\ cv.height = h THEN cv
    ELSE [width |-> w, height |-> h, data |-> [c \in Positions(w, h) |-> Transparent]]

\* canvas.width = w; canvas.height = h (lines 40-41): assigning a canvas
\* dimension, even to its current value, resets the bitmap to transparent
\* black and the context (filter "none", identity matrix) to its defaults.
resize(cv, w, h) ==
    [width |-> w, height |-> h, data |-> [c \in Positions(w, h) |-> Transparent]]

\* The default compositing operation, source-over, of pixel top on pixel
\* bottom.
sourceOver(top, bottom) ==
    LET under == bottom[4] * (255 - top[4])
        A == 255 * top[4] + under
        ch(k) == RoundDiv(255 * top[4] * top[k] + under * bottom[k], A)
    IN  IF RoundDiv(A, 255) = 0 THEN Transparent
        ELSE << ch(1), ch(2), ch(3), RoundDiv(A, 255) >>

\* Lines 43-53 on canvas cv: what is painted, composited on what the canvas
\* holds.
drawImage(cv, file, adj, angle, mirror) ==
    LET top == painted(file, adj, angle, mirror)
    IN  [cv EXCEPT !.data = [c \in DOMAIN cv.data |-> sourceOver(top[c], cv.data[c])]]

\* img.onload (lines 39-54) on canvas cv, for the image and the adjustments,
\* rotation and flip the callback closed over: the canvas it leaves behind.
drawOnload(cv, file, adj, angle, mirror) ==
    drawImage(resize(cv, Decode(file).width, Decode(file).height),
              file, adj, angle, mirror)

\* ------------------------------------------------------------------ state

VARIABLES
    image,        \* useState: the data URL of the uploaded file, or None
    adjustments,  \* useState: [brightness, contrast, saturation, blur]
    rotation,     \* useState: degrees
    flip,         \* useState: [horizontal, vertical]
    canvas,       \* canvasRef.current: None while no canvas is mounted
    reading,      \* the files a FileReader is still reading
    pending,      \* the renders whose img.onload has not run yet
    link,         \* link.href of the last download, or None
    events,       \* the number of user events so far
    shown,        \* history: the render the canvas holds, or None
    exportedAt,   \* history: the state at the last download, or None
    run           \* history: the user events repeated last, and where they began

vars ==
    << image, adjustments, rotation, flip, canvas, reading, pending, link,
       events, shown, exportedAt, run >>

\* No value: null.
None == << >>

NoRun == [op |-> "none", n |-> 0, from |-> None]

\* What a render started now closes over (the dependencies of useCallback,
\* line 55).
Snapshot == [image |-> image, adjustments |-> adjustments,
             rotation |-> rotation, flip |-> flip]

\* useState's initial values (lines 12-21); no canvas while image is null
\* (lines 84-99).
Init ==
    /\ image = None
    /\ adjustments = NoAdjustment
    /\ rotation = 0
    /\ flip = NoFlip
    /\ canvas = None
    /\ reading = {}
    /\ pending = {}
    /\ link = None
    /\ events = 0
    /\ shown = None
    /\ exportedAt = None
    /\ run = NoRun

\* applyFilters (lines 32-38) as the effect of lines 57-59 runs it after a
\* state change to snapshot s: a new Image starts loading.
applyFilters(s) == pending' = pending \cup {s}

\* One more user event, and room for the render it starts.
CanAct == events < MaxEvents /\ Cardinality(pending) < MaxPending

\* The history of repeated events after one more click of button op: clicks
\* of Rotate are counted in fours and clicks of a flip button in twos, each
\* group with the state it began in.
Repeated(op) ==
    IF run.op = op /\ run.n < (IF op = "rotate" THEN 4 ELSE 2)
    THEN [run EXCEPT !.n = run.n + 1]
    ELSE [op |-> op, n |-> 1, from |-> Snapshot]

\* handleImageUpload (lines 23-30): a FileReader starts reading the chosen
\* file.  The file input exists only while image is null (line 84).  The
\* model follows one upload: a second file chosen while the first is still
\* being read is left out.
handleImageUpload(file) ==
    /\ image = None
    /\ reading = {}
    /\ reading' = reading \cup {file}
    /\ UNCHANGED << image, adjustments, rotation, flip, canvas, pending, link,
                    events, shown, exportedAt, run >>

\* reader.onload (line 27): setImage.  The component renders again with the
\* canvas mounted (lines 100-105), and the effect runs applyFilters.
readerOnload(file) ==
    /\ file \in reading
    /\ Cardinality(pending) < MaxPending
    /\ reading' = reading \ {file}
    /\ image' = file
    /\ canvas' = IF canvas = None THEN BlankCanvas ELSE canvas
    /\ applyFilters([Snapshot EXCEPT !.image = file])
    /\ run' = NoRun
    /\ UNCHANGED << adjustments, rotation, flip, link, events, shown, exportedAt >>

\* handleAdjustment (lines 71-73), from a slider's onChange (line 126), which
\* fires when the slider's value changes.
handleAdjustment(name, value) ==
    /\ image # None
    /\ CanAct
    /\ value # adjustments[name]
    /\ adjustments' = [adjustments EXCEPT ![name] = value]
    /\ applyFilters([Snapshot EXCEPT !.adjustments = adjustments'])
    /\ events' = events + 1
    /\ run' = NoRun
    /\ UNCHANGED << image, rotation, flip, canvas, reading, link, shown, exportedAt >>

\* The updater without its wrap: r => r + 90.
nextRotationNoWrap(r) == r + 90

\* The updater with a half turn for the quarter turn: r => (r + 180) % 360.
nextRotationHalfTurn(r) == (r + 180) % 360

\* The updater of line 138.
nextRotation(r) == (r + 90) % 360

\* The Rotate button (line 138).
Rotate ==
    /\ image # None
    /\ CanAct
    /\ rotation' = nextRotation(rotation)
    /\ applyFilters([Snapshot EXCEPT !.rotation = rotation'])
    /\ events' = events + 1
    /\ run' = Repeated("rotate")
    /\ UNCHANGED << image, adjustments, flip, canvas, reading, link, shown, exportedAt >>

\* The updaters setting the flag where they should invert it.
toggleOn(f, axis) == [f EXCEPT ![axis] = TRUE]

\* The updaters of lines 145 and 152.
toggle(f, axis) == [f EXCEPT ![axis] = ~f[axis]]

\* The Flip H button (line 145).
FlipH ==
    /\ image # None
    /\ CanAct
    /\ flip' = toggle(flip, "horizontal")
    /\ applyFilters([Snapshot EXCEPT !.flip = flip'])
    /\ events' = events + 1
    /\ run' = Repeated("flipH")
    /\ UNCHANGED << image, adjustments, rotation, canvas, reading, link, shown, exportedAt >>

\* The Flip V button (line 152).
FlipV ==
    /\ image # None
    /\ CanAct
    /\ flip' = toggle(flip, "vertical")
    /\ applyFilters([Snapshot EXCEPT !.flip = flip'])
    /\ events' = events + 1
    /\ run' = Repeated("flipV")
    /\ UNCHANGED << image, adjustments, rotation, canvas, reading, link, shown, exportedAt >>

\* canvas.toDataURL(): the canvas bitmap as a PNG, which keeps every pixel.
toDataURL(cv) ==
    [type |-> "image/png", width |-> cv.width, height |-> cv.height, data |-> cv.data]

\* handleDownload (lines 61-69); the button exists once image is set.
handleDownload ==
    /\ image # None
    /\ events < MaxEvents
    /\ link' = toDataURL(canvas)
    /\ exportedAt' = Snapshot
    /\ events' = events + 1
    /\ run' = NoRun
    /\ UNCHANGED << image, adjustments, rotation, flip, canvas, reading, pending, shown >>

\* img.onload (lines 39-54) of a pending render s; the load events of
\* different Image objects come in no fixed order.
imgOnload(s) ==
    /\ s \in pending
    /\ pending' = pending \ {s}
    /\ canvas' = drawOnload(canvas, s.image, s.adjustments, s.rotation, s.flip)
    /\ shown' = s
    /\ UNCHANGED << image, adjustments, rotation, flip, reading, link, events,
                    exportedAt, run >>

Next ==
    \/ \E file \in Files : handleImageUpload(file)
    \/ \E file \in Files : readerOnload(file)
    \/ \E name \in Names : \E value \in SliderValues(name) : handleAdjustment(name, value)
    \/ Rotate
    \/ FlipH
    \/ FlipV
    \/ handleDownload
    \/ \E s \in pending : imgOnload(s)

Spec == Init /\ [][Next]_vars

\* The same component with handleAdjustment called with any number its
\* parameter admits, not only with a slider position.
NextAnyNumber ==
    \/ \E file \in Files : handleImageUpload(file)
    \/ \E file \in Files : readerOnload(file)
    \/ \E name \in Names : \E value \in SliderValues(name) \cup OffSlider(name) :
          handleAdjustment(name, value)
    \/ Rotate
    \/ FlipH
    \/ FlipV
    \/ handleDownload
    \/ \E s \in pending : imgOnload(s)

SpecAnyNumber == Init /\ [][NextAnyNumber]_vars

\* ------------------------------------------------------------- properties

\* The bitmap a render of snapshot s writes on a canvas that held nothing.
RenderOf(s) == drawOnload(BlankCanvas, s.image, s.adjustments, s.rotation, s.flip)

\* A bitmap mirrored left to right, and top to bottom.
MirrorH(bm) ==
    [bm EXCEPT !.data = [c \in DOMAIN bm.data |-> bm.data[<< bm.width - 1 - c[1], c[2] >>]]]

MirrorV(bm) ==
    [bm EXCEPT !.data = [c \in DOMAIN bm.data |-> bm.data[<< c[1], bm.height - 1 - c[2] >>]]]

\* The adjustments lie in the ranges of the sliders.
InRange(adj) == \A name \in Names : adj[name] >= 0 /\ adj[name] <= SliderMax(name)

\* C1: the canvas after a render is H x W when the render's rotation is 90
\* or 270 degrees and W x H when it is 0 or 180, for a W x H source.
C1_DimensionsFollowRotation ==
    shown # None =>
        LET img == Decode(shown.image)
        IN  IF shown.rotation \in {90, 270}
            THEN canvas.width = img.height /\ canvas.height = img.width
            ELSE canvas.width = img.width /\ canvas.height = img.height

\* C2: with a rotation of 90 or 270 degrees and a flip, the rendered bitmap
\* is the flip of the already rotated image: the render of the same
\* snapshot without the flip, mirrored.
C2_RotateThenFlip ==
    (shown # None /\ shown.rotation \in {90, 270}
        /\ (shown.flip.horizontal \/ shown.flip.vertical)) =>
        LET rotated == RenderOf([shown EXCEPT !.flip = NoFlip])
            h == IF shown.flip.horizontal THEN MirrorH(rotated) ELSE rotated
        IN  canvas = IF shown.flip.vertical THEN MirrorV(h) ELSE h

C4_IdentityAtDefaults ==
    (shown # None /\ shown.adjustments = NoAdjustment
        /\ shown.rotation = 0 /\ shown.flip = NoFlip) =>
        canvas = Decode(shown.image)

C4_Witness ==
    /\ shown # None
    /\ shown.image = <<2, 2>>
    /\ shown.adjustments = NoAdjustment /\ shown.rotation = 0 /\ shown.flip = NoFlip
    /\ canvas = Decode(<<2, 2>>)
    /\ events > 0

\* C5: after four clicks of Rotate with no other event between them the
\* rotation is what it was before the first, the render of the state equals
\* the render of the state before the first, and a canvas that holds the
\* render started by the fourth click holds that bitmap.
C5_FourRotations ==
    (run.op = "rotate" /\ run.n = 4) =>
        /\ rotation = run.from.rotation
        /\ RenderOf(Snapshot) = RenderOf(run.from)
        /\ (shown = Snapshot => canvas = RenderOf(run.from))

C5_Witness ==
    /\ run.op = "rotate" /\ run.n = 4
    /\ shown = Snapshot
    /\ pending = {}
    /\ canvas = RenderOf(run.from)
    /\ image = <<2, 1>>

\* C6: after two clicks of Flip H, or two of Flip V, with no other event
\* between them the flips are what they were before the first, and the
\* render is the render of the state before the first.
C6_FlipTwice ==
    (run.op \in {"flipH", "flipV"} /\ run.n = 2) =>
        /\ flip = run.from.flip
        /\ RenderOf(Snapshot) = RenderOf(run.from)
        /\ (shown = Snapshot => canvas = RenderOf(run.from))

C6_Witness ==
    /\ run.op = "flipH" /\ run.n = 2
    /\ rotation = 90
    /\ flip.vertical
    /\ shown = Snapshot
    /\ canvas = RenderOf(run.from)

\* C7: the bitmap on the canvas depends only on the source image and the
\* snapshot of the render that wrote it, not on what the canvas held
\* before: it is the bitmap that render writes on an empty canvas.
C7_RenderFromSource == shown # None => canvas = RenderOf(shown)

C7_Witness ==
    /\ shown # None
    /\ shown.adjustments.blur = 1
    /\ shown.rotation = 90
    /\ events >= 2
    /\ canvas = RenderOf(shown)
    /\ \E c \in DOMAIN canvas.data : canvas.data[c][4] \notin {0, 255}

\* C8: once every pending onload has run, the canvas holds the render of
\* the current adjustments, rotation and flips.
C8_LastParametersWin ==
    (image # None /\ pending = {} /\ reading = {}) => canvas = RenderOf(Snapshot)

\* C9: the rotation is one of 0, 90, 180, 270; a click of Rotate takes it
\* from r to (r + 90) mod 360, and no other step changes it.
C9_RotationSteps ==
    [][/\ rotation \in {0, 90, 180, 270}
       /\ rotation' \in {0, 90, 180, 270}
       /\ Rotate => rotation' = (rotation + 90) % 360
       /\ rotation' # rotation => Rotate]_vars

C9_Witness ==
    /\ run.op = "rotate" /\ run.n = 4
    /\ rotation = 0
    /\ pending # {}

\* C10: the bitmap a download exports is the render of the adjustments,
\* rotation and flips held in state when the button was clicked.
C10_DownloadIsCurrent ==
    link # None => link = toDataURL(RenderOf(exportedAt))

=============================================================================
